---- MODULE Spec2Model ----
(***************************************************************************)
(* A model of the chunk / extract / merge pipeline of                      *)
(* src/llm_pdf_extractor.py (class LLMPDFExtractor).                       *)
(*                                                                         *)
(* Three specifications share the variables:                               *)
(*   Spec       batch_process driving extract_to_json over a list of paths *)
(*   SpecChunk  chunk_text applied to bounded texts and size limits        *)
(*   SpecMerge  merge_chunk_results applied to bounded lists of records    *)
(*                                                                         *)
(* Texts are sequences of one-character strings.  JSON values are tagged   *)
(* records; a top-level JSON object (a Python dict, which keeps insertion  *)
(* order) is a sequence of [k, v] pairs with distinct keys; a nested JSON  *)
(* object is a function from sub-key to value.                             *)
(***************************************************************************)
EXTENDS Integers, Sequences, FiniteSets, TLC

VARIABLES
    pc,                   \* position of the running call
    max_chars_per_chunk,  \* self.max_chars_per_chunk
    pdf_paths,            \* batch_process argument
    doc_idx,              \* batch_process loop index i (1-based)
    results,              \* batch_process local `results`
    out_files,            \* files in output_dir: name -> index of the document
                          \* whose record it holds (0: the batch summary)
    summary_writes,       \* number of times _batch_summary.json was written
    pdf_text,             \* extract_to_json local `pdf_text` / chunk_text `text`
    chunks,               \* extract_to_json local `chunks` / chunk_text result
    chunk_results,        \* extract_to_json local / merge_chunk_results argument
    attempts,             \* service calls made so far for the current chunk
    call_log,             \* per returned extract_chunk_to_json call of the
                          \* current document: its chunk_num and total_chunks
                          \* arguments, service calls made, failed, sleeps
    result                \* extract_to_json / merge_chunk_results return value

vars == <<pc, max_chars_per_chunk, pdf_paths, doc_idx, results, out_files,
          summary_writes, pdf_text, chunks, chunk_results, attempts, call_log,
          result>>

(***************************************************************************)
(* Bounds of the model.                                                    *)
(***************************************************************************)
MaxAtoms == 4          \* atoms (characters or page markers) per chunk_text input
MaxChars == 12         \* largest max_chars tried by SpecChunk
MaxChunkResults == 3   \* records per merge_chunk_results input in SpecMerge
MaxDocs == 3           \* paths per batch in Spec

(***************************************************************************)
(* JSON values, as json.loads returns them.                                *)
(***************************************************************************)
Null == [t |-> "null"]
Str(s) == [t |-> "str", s |-> s]
Num(n) == [t |-> "num", n |-> n]
Bool(b) == [t |-> "bool", b |-> b]
List(l) == [t |-> "list", l |-> l]
Dict(f) == [t |-> "dict", d |-> f]
\* A float, held in hundredths (1.5 is Float2(150)).
Float2(hundredths) == [t |-> "float", h |-> hundredths]

EmptyObj == [k \in {} |-> Null]

\* Python truthiness of a JSON value (`if value`, `not value`).
Truthy(v) ==
    CASE v.t = "null" -> FALSE
      [] v.t = "str"  -> v.s # ""
      [] v.t = "num"  -> v.n # 0
      [] v.t = "bool" -> v.b
      [] v.t = "float" -> v.h # 0
      [] v.t = "list" -> v.l # <<>>
      [] v.t = "dict" -> DOMAIN v.d # {}

\* hash(v) raises TypeError for lists and dicts.
Hashable(v) == v.t \notin {"list", "dict"}

\* Python's == on JSON values.  Numbers and booleans compare by numeric
\* value (True == 1, False == 0, 1.0 == 1); NumericValue is in hundredths.
IsNumeric(v) == v.t \in {"num", "bool", "float"}
NumericValue(v) ==
    CASE v.t = "num"   -> 100 * v.n
      [] v.t = "bool"  -> IF v.b THEN 100 ELSE 0
      [] v.t = "float" -> v.h
RECURSIVE PyEq(_, _)
PyEq(a, b) ==
    IF IsNumeric(a) /\ IsNumeric(b) THEN NumericValue(a) = NumericValue(b)
    ELSE IF a.t # b.t THEN FALSE
    ELSE CASE a.t = "null" -> TRUE
           [] a.t = "str"  -> a.s = b.s
           [] a.t = "list" -> /\ Len(a.l) = Len(b.l)
                              /\ \A i \in DOMAIN a.l : PyEq(a.l[i], b.l[i])
           [] a.t = "dict" -> /\ DOMAIN a.d = DOMAIN b.d
                              /\ \A k \in DOMAIN a.d : PyEq(a.d[k], b.d[k])

(***************************************************************************)
(* Ordered dictionaries: sequences of [k, v] pairs with distinct keys.     *)
(***************************************************************************)
Pair(k, v) == [k |-> k, v |-> v]
Keys(d) == {d[i].k : i \in DOMAIN d}
Has(d, k) == k \in Keys(d)
Get(d, k) == d[CHOOSE i \in DOMAIN d : d[i].k = k].v
Put(d, k, v) ==
    IF Has(d, k)
    THEN LET i == CHOOSE j \in DOMAIN d : d[j].k = k
         IN SubSeq(d, 1, i - 1) \o <<Pair(k, v)>> \o SubSeq(d, i + 1, Len(d))
    ELSE Append(d, Pair(k, v))
\* Python dict equality: same keys, equal values, order ignored.
DictEq(a, b) == /\ Keys(a) = Keys(b)
                /\ \A k \in Keys(a) : PyEq(Get(a, k), Get(b, k))
\* dict.update on nested objects.
Update(a, b) == b @@ a

(***************************************************************************)
(* merge_chunk_results                                                     *)
(***************************************************************************)
ScalarKeys == <<"insurance_provider", "plan_name", "plan_type", "document_type",
                "effective_date", "state_specific">>
NestedKeys == <<"coverage_details", "prior_authorization", "timely_filing",
                "appeals_process", "contact_information">>

Skeleton ==
    << Pair("insurance_provider", Null), Pair("plan_name", Null),
       Pair("plan_type", Null), Pair("document_type", Null),
       Pair("effective_date", Null), Pair("state_specific", Null),
       Pair("coverage_details", Dict(EmptyObj)),
       Pair("prior_authorization", Dict(EmptyObj)),
       Pair("timely_filing", Dict(EmptyObj)),
       Pair("appeals_process", Dict(EmptyObj)),
       Pair("key_requirements", List(<<>>)),
       Pair("contact_information", Dict(EmptyObj)),
       Pair("additional_info", List(<<>>)) >>

\* A variant that skips only the markers extract_chunk_to_json builds itself.
IsErrorRecordOwnMarker(chunk_result) == Keys(chunk_result) = {"error", "chunk"}
\* if "error" in chunk_result: continue
IsErrorRecord(chunk_result) == Has(chunk_result, "error")

\* Statements run in sequence: F applied to the value v, computed first.
Then(v, F(_)) == CHOOSE r \in {F(x) : x \in {v}} : TRUE

\* The condition under which a chunk's scalar value is taken.
ScalarTaken(merged, chunk_result, key) ==
    /\ Has(chunk_result, key)
    /\ Truthy(Get(chunk_result, key))
    /\ ~Truthy(Get(merged, key))

RECURSIVE MergeScalars(_, _, _)
MergeScalars(merged, chunk_result, keys) ==
    IF keys = <<>> THEN merged
    ELSE LET key == Head(keys)
         IN Then(IF ScalarTaken(merged, chunk_result, key)
                 THEN Put(merged, key, Get(chunk_result, key))
                 ELSE merged,
                 LAMBDA m2 : MergeScalars(m2, chunk_result, Tail(keys)))

RECURSIVE MergeNested(_, _, _)
MergeNested(merged, chunk_result, keys) ==
    IF keys = <<>> THEN merged
    ELSE LET key == Head(keys)
         IN Then(IF Has(chunk_result, key) /\ Get(chunk_result, key).t = "dict"
                 THEN Put(merged, key,
                          Dict(Update(Get(merged, key).d, Get(chunk_result, key).d)))
                 ELSE merged,
                 LAMBDA m2 : MergeNested(m2, chunk_result, Tail(keys)))

\* A variant of the list step that keeps only the latest chunk's list.
MergeListsOverwrite(merged, chunk_result) ==
    IF Has(chunk_result, "key_requirements")
       /\ Get(chunk_result, "key_requirements").t = "list"
    THEN Put(merged, "key_requirements", Get(chunk_result, "key_requirements"))
    ELSE merged
\* if "key_requirements" in chunk_result and isinstance(..., list): extend
MergeLists(merged, chunk_result) ==
    IF Has(chunk_result, "key_requirements")
       /\ Get(chunk_result, "key_requirements").t = "list"
    THEN Put(merged, "key_requirements",
             List(Get(merged, "key_requirements").l
                  \o Get(chunk_result, "key_requirements").l))
    ELSE merged

\* for key, value in chunk_result.items(): ... (items in insertion order)
RECURSIVE MergeAdditional(_, _, _)
MergeAdditional(merged, chunk_result, i) ==
    IF i > Len(chunk_result) THEN merged
    ELSE LET key == chunk_result[i].k
             value == chunk_result[i].v
             info == Get(merged, "additional_info").l
         IN Then(IF ~Has(merged, key) /\ Truthy(value)
                 THEN IF value.t = "list"
                      THEN Put(merged, "additional_info", List(info \o value.l))
                      ELSE IF value.t = "str"
                      THEN Put(merged, "additional_info",
                               List(Append(info, Str(key \o ": " \o value.s))))
                      ELSE merged
                 ELSE merged,
                 LAMBDA m2 : MergeAdditional(m2, chunk_result, i + 1))

\* One iteration of the loop over chunk_results.
MergeOne(merged, chunk_result) ==
    IF IsErrorRecord(chunk_result) THEN merged
    ELSE Then(MergeScalars(merged, chunk_result, ScalarKeys), LAMBDA m1 :
         Then(MergeNested(m1, chunk_result, NestedKeys), LAMBDA m2 :
         Then(MergeLists(m2, chunk_result), LAMBDA m3 :
              MergeAdditional(m3, chunk_result, 1))))

\* A variant of the loop that starts at the second record.
RECURSIVE AccumulateFromSecond(_, _)
AccumulateFromSecond(crs, n) ==
    IF n <= 1 THEN Skeleton
    ELSE Then(AccumulateFromSecond(crs, n - 1), LAMBDA merged : MergeOne(merged, crs[n]))
\* The loop: `merged` after the first n records.
RECURSIVE Accumulate(_, _)
Accumulate(crs, n) ==
    IF n = 0 THEN Skeleton
    ELSE Then(Accumulate(crs, n - 1), LAMBDA merged : MergeOne(merged, crs[n]))

SeqRange(s) == {s[i] : i \in DOMAIN s}

\* The elements of set(xs): an element equal (==) to an earlier one is not
\* inserted, so of 1 and True the one met first stays.
SetMembers(xs) ==
    {xs[i] : i \in {i \in DOMAIN xs : \A j \in 1..(i - 1) : ~PyEq(xs[j], xs[i])}}

\* The orders list(set(xs)) may return: every arrangement of the elements
\* of the set (set iteration order is unspecified).
SetOrders(xs) ==
    Then(SetMembers(xs), LAMBDA S : {o \in [1..Cardinality(S) -> S] : SeqRange(o) = S})

\* type(v).__name__ of a JSON value.
TypeName(v) ==
    CASE v.t = "null"  -> "NoneType"
      [] v.t = "str"   -> "str"
      [] v.t = "num"   -> "int"
      [] v.t = "bool"  -> "bool"
      [] v.t = "float" -> "float"
      [] v.t = "list"  -> "list"
      [] v.t = "dict"  -> "dict"

\* str(e) of the TypeError set(xs) raises: set() hashes the elements in
\* order and stops at the first unhashable one.
UnhashableError(xs) ==
    LET i == CHOOSE j \in DOMAIN xs :
                 ~Hashable(xs[j]) /\ \A k \in 1..(j - 1) : Hashable(xs[k])
    IN "unhashable type: '" \o TypeName(xs[i]) \o "'"

\* merge_chunk_results; set_order is the order in which set(...) is iterated.
\* Returns [raised, value]; when set() meets an unhashable element `raised`
\* is TRUE and `error` is the exception's message.
merge_chunk_results(crs, set_order) ==
    Then(Accumulate(crs, Len(crs)), LAMBDA merged :
         LET reqs == Get(merged, "key_requirements").l
         IN IF reqs = <<>> THEN [raised |-> FALSE, value |-> merged]
            ELSE IF \E i \in DOMAIN reqs : ~Hashable(reqs[i])
            THEN [raised |-> TRUE, value |-> <<>>, error |-> UnhashableError(reqs)]
            ELSE [raised |-> FALSE,
                  value |-> Put(merged, "key_requirements", List(set_order))])

\* The set_order values possible for an input.
MergeOrders(crs) ==
    Then(Get(Accumulate(crs, Len(crs)), "key_requirements").l, LAMBDA reqs :
         IF reqs = <<>> \/ \E i \in DOMAIN reqs : ~Hashable(reqs[i])
         THEN {<<>>}
         ELSE SetOrders(reqs))

(***************************************************************************)
(* Text helpers: str.split(sep), str.split(), str.strip() on character     *)
(* sequences.                                                              *)
(***************************************************************************)
\* The characters str.strip() and str.split() take as whitespace
\* (str.isspace()), as far as a string literal can hold them: U+2000..U+200A,
\* U+2028, U+2029, U+202F, U+205F and U+3000 cannot be written here.
Whitespace ==
    {" ",     \* U+0020
     "\t",    \* U+0009
     "\n",    \* U+000A
     "",     \* U+000B
     "\f",    \* U+000C
     "\r",    \* U+000D
     "",     \* U+001C
     "",     \* U+001D
     "",     \* U+001E
     "",     \* U+001F
     "",     \* U+0085
     " ",    \* U+00A0
     " "}     \* U+1680
IsSpace(c) == c \in Whitespace

\* "--- Page"
PageMarker == <<"-", "-", "-", " ", "P", "a", "g", "e">>

\* Index of the first occurrence of sep in s at or after i, 0 when none.
RECURSIVE FindFrom(_, _, _)
FindFrom(s, sep, i) ==
    IF i + Len(sep) - 1 > Len(s) THEN 0
    ELSE IF SubSeq(s, i, i + Len(sep) - 1) = sep THEN i
    ELSE FindFrom(s, sep, i + 1)

\* s.split(sep): the segments between non-overlapping occurrences of sep.
RECURSIVE SplitOn(_, _)
SplitOn(s, sep) ==
    LET j == FindFrom(s, sep, 1)
    IN IF j = 0 THEN <<s>>
       ELSE <<SubSeq(s, 1, j - 1)>> \o SplitOn(SubSeq(s, j + Len(sep), Len(s)), sep)

\* not s.strip(): s is empty or whitespace only.
IsBlank(s) == \A i \in DOMAIN s : IsSpace(s[i])

\* s.split(): the maximal runs of non-whitespace characters.
RECURSIVE SplitWords(_)
SplitWords(s) ==
    IF s = <<>> THEN <<>>
    ELSE IF IsSpace(Head(s)) THEN SplitWords(Tail(s))
    ELSE LET stop == IF \E i \in DOMAIN s : IsSpace(s[i])
                     THEN CHOOSE i \in DOMAIN s :
                              IsSpace(s[i]) /\ \A j \in 1..(i - 1) : ~IsSpace(s[j])
                     ELSE Len(s) + 1
         IN <<SubSeq(s, 1, stop - 1)>> \o SplitWords(SubSeq(s, stop, Len(s)))

RECURSIVE Flatten(_)
Flatten(ss) == IF ss = <<>> THEN <<>> ELSE Head(ss) \o Flatten(Tail(ss))

(***************************************************************************)
(* chunk_text                                                              *)
(***************************************************************************)
\* The loop over words of an oversized page; st = [chunks, temp_chunk].
RECURSIVE PackWords(_, _, _)
PackWords(st, words, max_chars) ==
    IF words = <<>> THEN st
    ELSE LET word == Head(words)
             st2 == IF Len(st.temp_chunk) + Len(word) + 1 <= max_chars
                    THEN [st EXCEPT !.temp_chunk = @ \o word \o <<" ">>]
                    ELSE [chunks |-> IF st.temp_chunk # <<>>
                                     THEN Append(st.chunks, st.temp_chunk)
                                     ELSE st.chunks,
                          temp_chunk |-> word \o <<" ">>]
         IN PackWords(st2, Tail(words), max_chars)

\* The force split of one oversized page, appended to chunks.
SplitLargePage(chunks0, page_text, max_chars) ==
    LET st == PackWords([chunks |-> chunks0, temp_chunk |-> <<>>],
                        SplitWords(page_text), max_chars)
    IN IF st.temp_chunk # <<>> THEN Append(st.chunks, st.temp_chunk) ELSE st.chunks

\* page_text = "--- Page" + page if page != pages[0] else page
PageText(page, pages) == IF page # pages[1] THEN PageMarker \o page ELSE page

\* The loop over pages; st = [chunks, current_chunk].
RECURSIVE PackPages(_, _, _, _)
PackPages(st, pages, n, max_chars) ==
    IF n > Len(pages) THEN st
    ELSE LET page == pages[n]
             page_text == PageText(page, pages)
             st2 ==
               IF IsBlank(page) THEN st
               ELSE IF Len(page_text) > max_chars
               THEN [chunks |-> SplitLargePage(
                                    IF st.current_chunk # <<>>
                                    THEN Append(st.chunks, st.current_chunk)
                                    ELSE st.chunks,
                                    page_text, max_chars),
                     current_chunk |-> <<>>]
               ELSE IF Len(st.current_chunk) + Len(page_text) <= max_chars
               THEN [st EXCEPT !.current_chunk = @ \o page_text]
               ELSE [chunks |-> Append(st.chunks, st.current_chunk),
                     current_chunk |-> page_text]
         IN PackPages(st2, pages, n + 1, max_chars)

\* A variant that sends a text of exactly max_chars characters to the packer.
chunk_text_below_limit(text, max_chars) ==
    IF Len(text) < max_chars THEN <<text>>
    ELSE LET st == PackPages([chunks |-> <<>>, current_chunk |-> <<>>],
                             SplitOn(text, PageMarker), 1, max_chars)
         IN IF st.current_chunk # <<>>
            THEN Append(st.chunks, st.current_chunk)
            ELSE st.chunks
\* chunk_text
chunk_text(text, max_chars) ==
    IF Len(text) <= max_chars THEN <<text>>
    ELSE LET st == PackPages([chunks |-> <<>>, current_chunk |-> <<>>],
                             SplitOn(text, PageMarker), 1, max_chars)
         IN IF st.current_chunk # <<>>
            THEN Append(st.chunks, st.current_chunk)
            ELSE st.chunks

(***************************************************************************)
(* Inputs of the two function-level specifications.                        *)
(***************************************************************************)
SeqsUpTo(S, n) == UNION {[1..k -> S] : k \in 0..n}

\* Texts are built from single characters and whole page markers, so that
\* short inputs already hold several pages.
Atoms == {<<"a">>, <<"b">>, <<" ">>, <<"\n">>, <<"\r">>, <<" ">>, PageMarker}
Texts == {Flatten(s) : s \in SeqsUpTo(Atoms, MaxAtoms)}

ErrorMarker(e, chunk_num) == <<Pair("error", Str(e)), Pair("chunk", Num(chunk_num))>>

PlanTypeValues == {Null, Str(""), Str("PPO"), Str("HMO"), Num(0),
                   Float2(0), Float2(150)}
CoverageValues == {Null,
                   Dict([deductible |-> Str("$500")]),
                   Dict([copay |-> Str("$20")]),
                   Dict([deductible |-> Null])}
RequirementValues == {List(<<>>),
                      List(<<Str("r1")>>),
                      List(<<Str("r1"), Str("r2")>>),
                      List(<<Num(1), Bool(TRUE)>>),
                      List(<<Dict([rule |-> Str("r1")])>>),
                      List(<<List(<<Str("r3")>>)>>)}
NotesValues == {Str("call first"), Num(7), List(<<Str("x")>>),
                Dict([fax |-> Str("555")])}

FullRecord == <<Pair("plan_type", Str("PPO")),
                Pair("coverage_details", Dict([deductible |-> Str("$500")])),
                Pair("key_requirements", List(<<Str("r1")>>)),
                Pair("notes", Str("n"))>>
ErrorWithFields == <<Pair("error", Str("partial")),
                     Pair("plan_name", Str("Y")),
                     Pair("coverage_details", Dict([copay |-> Str("$5")])),
                     Pair("key_requirements", List(<<Str("r9")>>)),
                     Pair("notes", Str("e"))>>

PartialRecords ==
    {<<>>, FullRecord, ErrorWithFields, ErrorMarker("boom", 1),
     <<Pair("plan_name", Str("X"))>>}
    \cup {<<Pair("plan_type", v)>> : v \in PlanTypeValues}
    \cup {<<Pair("coverage_details", v)>> : v \in CoverageValues}
    \cup {<<Pair("key_requirements", v)>> : v \in RequirementValues}
    \cup {<<Pair("notes", v)>> : v \in NotesValues}

(***************************************************************************)
(* SpecChunk: chunk_text on every bounded text and limit.                  *)
(***************************************************************************)
Idle == /\ pdf_paths = <<>>
        /\ doc_idx = 0
        /\ results = [total |-> 0, successful |-> 0, failed |-> 0, files |-> <<>>]
        /\ out_files = <<>>
        /\ summary_writes = 0
        /\ attempts = 0
        /\ call_log = <<>>

InitChunk ==
    /\ Idle
    /\ pc = "chunk_text"
    /\ pdf_text \in Texts
    /\ max_chars_per_chunk \in 1..MaxChars
    /\ chunks = <<>>
    /\ chunk_results = <<>>
    /\ result = <<>>

ChunkText ==
    /\ pc = "chunk_text"
    /\ chunks' = chunk_text(pdf_text, max_chars_per_chunk)
    /\ pc' = "chunk_done"
    /\ UNCHANGED <<max_chars_per_chunk, pdf_paths, doc_idx, results, out_files,
                   summary_writes, pdf_text, chunk_results, attempts, call_log,
                   result>>

NextChunk == ChunkText
SpecChunk == InitChunk /\ [][NextChunk]_vars

(***************************************************************************)
(* SpecMerge: merge_chunk_results on every bounded list of records.        *)
(***************************************************************************)
InitMerge ==
    /\ Idle
    /\ pc = "merge"
    /\ pdf_text = <<>>
    /\ max_chars_per_chunk = 0
    /\ chunks = <<>>
    /\ chunk_results \in SeqsUpTo(PartialRecords, MaxChunkResults)
    /\ result = <<>>

MergeResults ==
    /\ pc = "merge"
    /\ \E set_order \in MergeOrders(chunk_results) :
           result' = merge_chunk_results(chunk_results, set_order)
    /\ pc' = "merge_done"
    /\ UNCHANGED <<max_chars_per_chunk, pdf_paths, doc_idx, results, out_files,
                   summary_writes, pdf_text, chunks, chunk_results, attempts,
                   call_log>>

NextMerge == MergeResults
SpecMerge == InitMerge /\ [][NextMerge]_vars

(***************************************************************************)
(* The documents on disk.                                                  *)
(***************************************************************************)
Path(dir, name) == [dir |-> dir, name |-> name, ext |-> ".pdf"]
\* os.path.basename(pdf_path)
Basename(path) == path.name \o path.ext
\* n dots.
RECURSIVE Dots(_)
Dots(n) == IF n = 0 THEN "" ELSE "." \o Dots(n - 1)
\* os.path.splitext(os.path.basename(pdf_path))[0]: the name up to its last
\* dot; leading dots start no extension, so a name that is only dots before
\* its last dot is kept whole.
SplitExtRoot(path) ==
    IF path.name = Dots(Len(path.name)) THEN Basename(path) ELSE path.name
\* f"{filename}.json"
OutputName(path) == SplitExtRoot(path) \o ".json"
SummaryName == "_batch_summary.json"

PdfFile(pages, size) == [kind |-> "pdf", pages |-> pages, size |-> size]
CorruptFile == [kind |-> "corrupt", pages |-> <<>>, size |-> 0]

Paths == {Path("d1", "doc1"), Path("d2", "doc1"), Path("d1", "doc2"),
          Path("d1", "scan"), Path("d1", "_batch_summary"), Path("d1", "")}

\* What pdfplumber finds at each path: the text of each page ("" for a page
\* without a text layer), or a file it cannot open.
Disk(path) ==
    CASE path = Path("d1", "doc1") -> PdfFile(<< <<"a", "b">> >>, 2048)
      [] path = Path("d2", "doc1") ->
             PdfFile(<< <<"a", " ", "b">>, <<>>, <<"b">> >>, 1572864)
      [] path = Path("d1", "doc2") -> CorruptFile
      [] path = Path("d1", "scan") ->
             PdfFile(<< <<"a", " ", " ", " ", "b">> >>, 5243)
      [] path = Path("d1", "_batch_summary") -> PdfFile(<< <<>> >>, 100)
      [] path = Path("d1", "") -> PdfFile(<< <<"b">> >>, 10)

\* The values of self.max_chars_per_chunk tried (the attribute is public; the
\* constructor's 20000 is scaled to documents of a few dozen characters).
ChunkLimits == {19, 20, 40}

ModelName == "llama-3.3-70b-versatile"

(***************************************************************************)
(* extract_text_from_pdf                                                   *)
(***************************************************************************)
DigitChar(d) == <<"0", "1", "2", "3", "4", "5", "6", "7", "8", "9">>[d + 1]
RECURSIVE IntToStr(_)
IntToStr(n) == IF n < 10 THEN <<DigitChar(n)>>
               ELSE IntToStr(n \div 10) \o <<DigitChar(n % 10)>>

\* f"--- Page {page_num} ---\n{text}"
PageBlock(page_num, text) ==
    PageMarker \o <<" ">> \o IntToStr(page_num) \o <<" ", "-", "-", "-", "\n">> \o text

\* "\n\n".join(text_content) over the pages that have text, from page n on.
RECURSIVE JoinPages(_, _, _)
JoinPages(pages, n, first) ==
    IF n > Len(pages) THEN <<>>
    ELSE IF pages[n] = <<>> THEN JoinPages(pages, n + 1, first)
    ELSE (IF first THEN <<>> ELSE <<"\n", "\n">>)
         \o PageBlock(n, pages[n]) \o JoinPages(pages, n + 1, FALSE)

extract_text_from_pdf(pdf_path) ==
    IF Disk(pdf_path).kind # "pdf" THEN <<>>
    ELSE JoinPages(Disk(pdf_path).pages, 1, TRUE)

(***************************************************************************)
(* extract_chunk_to_json and its retry decorator                           *)
(***************************************************************************)
StopAfterAttempt == 3

ServiceFailure == [ok |-> FALSE, body |-> <<>>]
ServiceReply(body) == [ok |-> TRUE, body |-> body]
\* What the service can answer a call with: a JSON object, or a failure
\* (network error, rate limit, or a reply json.loads rejects).
Responses ==
    {FullRecord,
     <<Pair("plan_type", Str("HMO")),
       Pair("coverage_details", Dict([copay |-> Str("$20")])),
       Pair("key_requirements", List(<<Str("r2")>>))>>,
     <<Pair("key_requirements", List(<<Dict([rule |-> Str("r1")])>>))>>,
     <<Pair("key_requirements", List(<<List(<<Str("r3")>>)>>))>>}
ServiceOutcomes == {ServiceReply(r) : r \in Responses} \cup {ServiceFailure}

\* time.sleep(1), in seconds.
PacingDelay == 1

\* A variant of the body without the pacing delay.
extract_chunk_body_unpaced(outcome, chunk_num) ==
    IF ~outcome.ok
    THEN [raised |-> FALSE, value |-> ErrorMarker("service error", chunk_num),
          slept |-> 0]
    ELSE [raised |-> FALSE, value |-> outcome.body, slept |-> 0]
\* The decorated function's body (one attempt): [raised, value, slept].
\* The try/except turns every failure into a returned error marker; `slept`
\* is the time slept between the service's answer and the return.
extract_chunk_body(outcome, chunk_num) ==
    IF ~outcome.ok
    THEN [raised |-> FALSE, value |-> ErrorMarker("service error", chunk_num),
          slept |-> 0]
    ELSE [raised |-> FALSE, value |-> outcome.body, slept |-> PacingDelay]

\* tenacity's decision after attempt number n of the decorated function.
RetryDecision(attempt, n) ==
    IF ~attempt.raised THEN "return"
    ELSE IF n >= StopAfterAttempt THEN "raise"
    ELSE "retry"

(***************************************************************************)
(* extract_to_json                                                         *)
(***************************************************************************)
\* round(size / (1024*1024), 2), in hundredths (round half to even).
FileSizeMb(size) ==
    LET mb == 1024 * 1024
        q == (size * 100) \div mb
        r == (size * 100) % mb
    IN IF 2 * r > mb \/ (2 * r = mb /\ q % 2 = 1) THEN q + 1 ELSE q

Metadata(pdf_path, text, limit) ==
    Dict([source_file |-> Str(Basename(pdf_path)),
          file_size_mb |-> Float2(FileSizeMb(Disk(pdf_path).size)),
          model_used |-> Str(ModelName),
          extraction_method |->
              Str(IF Len(text) > limit THEN "groq_llm_chunked" ELSE "groq_llm")])

\* return {"error": "Failed to extract text from PDF", "file": pdf_path}
TextFailure(pdf_path) ==
    <<Pair("error", Str("Failed to extract text from PDF")),
      Pair("file", Str(pdf_path.dir \o "/" \o Basename(pdf_path)))>>

\* The texts submitted to the service: the whole text when it fits, else
\* the chunks of chunk_text.
TextsToSubmit(text, limit) ==
    IF Len(text) <= limit THEN <<text>> ELSE chunk_text(text, limit)

\* The record extract_to_json builds from the chunk results, before the
\* metadata: [raised, value].
CombineResults(text, limit, crs, set_order) ==
    IF Len(text) <= limit
    THEN [raised |-> FALSE, value |-> crs[1]]
    ELSE merge_chunk_results(crs, set_order)

CombineOrders(text, limit, crs) ==
    IF Len(text) <= limit THEN {<<>>} ELSE MergeOrders(crs)

(***************************************************************************)
(* batch_process                                                           *)
(***************************************************************************)
SuccessEntry(pdf_path) ==
    [input |-> pdf_path, output |-> Str(OutputName(pdf_path)), status |-> "success"]
FailedEntry(pdf_path, e) ==
    [input |-> pdf_path, output |-> Null, status |-> "failed", error |-> e]

WriteFile(files, name, writer) ==
    [n \in DOMAIN files \cup {name} |-> IF n = name THEN writer ELSE files[n]]

CurrentPath == pdf_paths[doc_idx]

\* The loop moves to the next path, or leaves the loop after the last one.
NextDocument ==
    /\ doc_idx' = doc_idx + 1
    /\ pc' = IF doc_idx = Len(pdf_paths) THEN "summary" ELSE "document"

\* The try block after extract_to_json returned json_data.
SaveSuccess ==
    /\ out_files' = WriteFile(out_files, OutputName(CurrentPath), doc_idx)
    /\ results' = [results EXCEPT !.successful = @ + 1,
                                  !.files = Append(@, SuccessEntry(CurrentPath))]
    /\ NextDocument

\* A variant of the except block that records the failure and leaves the loop.
SaveFailureAborts(e) ==
    /\ out_files' = out_files
    /\ results' = [results EXCEPT !.failed = @ + 1,
                                  !.files = Append(@, FailedEntry(CurrentPath, e))]
    /\ doc_idx' = doc_idx + 1
    /\ pc' = "summary"
\* A variant of the except block that lists the failure without counting it.
SaveFailureUncounted(e) ==
    /\ out_files' = out_files
    /\ results' = [results EXCEPT !.files = Append(@, FailedEntry(CurrentPath, e))]
    /\ NextDocument
\* The except block.
SaveFailure(e) ==
    /\ out_files' = out_files
    /\ results' = [results EXCEPT !.failed = @ + 1,
                                  !.files = Append(@, FailedEntry(CurrentPath, e))]
    /\ NextDocument

Init ==
    /\ pc = "start"
    /\ max_chars_per_chunk \in ChunkLimits
    /\ pdf_paths \in SeqsUpTo(Paths, MaxDocs)
    /\ doc_idx = 0
    /\ results = [total |-> 0, successful |-> 0, failed |-> 0, files |-> <<>>]
    /\ out_files = <<>>
    /\ summary_writes = 0
    /\ pdf_text = <<>>
    /\ chunks = <<>>
    /\ chunk_results = <<>>
    /\ attempts = 0
    /\ call_log = <<>>
    /\ result = <<>>

\* batch_process up to the loop.
BatchStart ==
    /\ pc = "start"
    /\ results' = [total |-> Len(pdf_paths), successful |-> 0, failed |-> 0,
                   files |-> <<>>]
    /\ doc_idx' = 1
    /\ pc' = IF pdf_paths = <<>> THEN "summary" ELSE "document"
    /\ UNCHANGED <<max_chars_per_chunk, pdf_paths, out_files, summary_writes,
                   pdf_text, chunks, chunk_results, attempts, call_log, result>>

\* A variant that takes the empty text for a document without text and goes
\* on to the service with it.
ExtractTextFailsUnnoticed ==
    /\ pc = "document"
    /\ extract_text_from_pdf(CurrentPath) = <<>>
    /\ pdf_text' = <<>>
    /\ chunks' = << <<>> >>
    /\ chunk_results' = <<>>
    /\ call_log' = <<>>
    /\ attempts' = 0
    /\ result' = <<>>
    /\ pc' = "call"
    /\ UNCHANGED <<max_chars_per_chunk, pdf_paths, doc_idx, results, out_files,
                   summary_writes>>
\* extract_to_json returns the text-failure record; batch_process saves it.
ExtractTextFails ==
    /\ pc = "document"
    /\ extract_text_from_pdf(CurrentPath) = <<>>
    /\ pdf_text' = <<>>
    /\ chunks' = <<>>
    /\ chunk_results' = <<>>
    /\ call_log' = <<>>
    /\ attempts' = 0
    /\ result' = TextFailure(CurrentPath)
    /\ SaveSuccess
    /\ UNCHANGED <<max_chars_per_chunk, pdf_paths, summary_writes>>

\* extract_to_json up to the first service call.
ExtractTextOk ==
    /\ pc = "document"
    /\ extract_text_from_pdf(CurrentPath) # <<>>
    /\ pdf_text' = extract_text_from_pdf(CurrentPath)
    /\ chunks' = TextsToSubmit(pdf_text', max_chars_per_chunk)
    /\ chunk_results' = <<>>
    /\ call_log' = <<>>
    /\ attempts' = 0
    /\ result' = <<>>
    /\ pc' = IF chunks' = <<>> THEN "combine" ELSE "call"
    /\ UNCHANGED <<max_chars_per_chunk, pdf_paths, doc_idx, results, out_files,
                   summary_writes>>

\* A variant of the chunk loop that stops at the first error marker.
AfterChunkStopsOnError(chunk_num, chunk_result) ==
    IF chunk_num = Len(chunks) \/ Has(chunk_result, "error")
    THEN "combine" ELSE "call"
\* The chunk loop after chunk_result was appended: the next chunk, or the
\* code after the loop.
AfterChunk(chunk_num, chunk_result) ==
    IF chunk_num = Len(chunks) THEN "combine" ELSE "call"

\* One attempt of extract_chunk_to_json on the next chunk.
ServiceCall ==
    /\ pc = "call"
    /\ \E outcome \in ServiceOutcomes :
         LET chunk_num == Len(chunk_results) + 1
             n == attempts + 1
             attempt == extract_chunk_body(outcome, chunk_num)
             decision == RetryDecision(attempt, n)
             failed == (n - 1) + (IF outcome.ok THEN 0 ELSE 1)
         IN CASE decision = "retry" ->
                   /\ attempts' = n
                   /\ UNCHANGED <<pc, doc_idx, results, out_files, chunk_results,
                                  call_log>>
              [] decision = "raise" ->
                   /\ attempts' = 0
                   /\ SaveFailure("RetryError")
                   /\ UNCHANGED <<chunk_results, call_log>>
              [] decision = "return" ->
                   /\ attempts' = 0
                   /\ chunk_results' = Append(chunk_results, attempt.value)
                   /\ call_log' = Append(call_log,
                                         [chunk_num |-> chunk_num,
                                          total_chunks |-> Len(chunks),
                                          calls |-> n, failed |-> failed,
                                          slept |-> attempt.slept])
                   /\ pc' = AfterChunk(chunk_num, attempt.value)
                   /\ UNCHANGED <<doc_idx, results, out_files>>
    /\ UNCHANGED <<max_chars_per_chunk, pdf_paths, summary_writes, pdf_text,
                   chunks, result>>

\* The rest of extract_to_json (merge, metadata) and of the loop body.
FinishDocument ==
    /\ pc = "combine"
    /\ \E set_order \in CombineOrders(pdf_text, max_chars_per_chunk, chunk_results) :
         LET combined == CombineResults(pdf_text, max_chars_per_chunk,
                                        chunk_results, set_order)
         IN IF combined.raised
            THEN /\ result' = <<>>
                 /\ SaveFailure(combined.error)
            ELSE /\ result' = Put(combined.value, "_metadata",
                                  Metadata(CurrentPath, pdf_text, max_chars_per_chunk))
                 /\ SaveSuccess
    /\ UNCHANGED <<max_chars_per_chunk, pdf_paths, summary_writes, pdf_text,
                   chunks, chunk_results, attempts, call_log>>

\* After the loop: the summary file.
WriteSummary ==
    /\ pc = "summary"
    /\ out_files' = WriteFile(out_files, SummaryName, 0)
    /\ summary_writes' = summary_writes + 1
    /\ pc' = "done"
    /\ UNCHANGED <<max_chars_per_chunk, pdf_paths, doc_idx, results, pdf_text,
                   chunks, chunk_results, attempts, call_log, result>>

Next == \/ BatchStart
        \/ ExtractTextFails
        \/ ExtractTextOk
        \/ ServiceCall
        \/ FinishDocument
        \/ WriteSummary

Spec == Init /\ [][Next]_vars

(***************************************************************************)
(* Properties.                                                             *)
(***************************************************************************)
Remove(d, k) == SelectSeq(d, LAMBDA p : p.k # k)
InList(v, l) == \E i \in DOMAIN l : l[i] = v

\* C1: extract_chunk_to_json retries a failed service call up to 3 attempts:
\* a call returns the error marker only after 3 failed service calls, and a
\* call whose service calls did not all fail returns the service's record.
C1_MarkerOnlyAfterThreeAttempts ==
    \A i \in DOMAIN call_log :
        IF call_log[i].failed = call_log[i].calls
        THEN call_log[i].calls = StopAfterAttempt
        ELSE ~Has(chunk_results[i], "chunk")

\* C2: a document whose file cannot be read is counted as failed: its entry
\* has status failed, an error and no output, so successful counts only the
\* documents that were read.
C2_ReadFailureIsFailedEntry ==
    /\ \A j \in DOMAIN results.files :
           Disk(results.files[j].input).kind # "pdf"
           => /\ results.files[j].status = "failed"
              /\ "error" \in DOMAIN results.files[j]
              /\ results.files[j].output = Null
    /\ results.successful =
           Cardinality({j \in DOMAIN results.files :
                            Disk(results.files[j].input).kind = "pdf"
                            /\ results.files[j].status = "success"})

\* C3: every chunk chunk_text returns is at most max_chars characters long.
C3_ChunksWithinLimit ==
    pc = "chunk_done"
    => \A i \in DOMAIN chunks : Len(chunks[i]) <= max_chars_per_chunk

\* C4: the chunks chunk_text returns, concatenated in order, are the input
\* text.
C4_ChunksReproduceText ==
    pc = "chunk_done" => Flatten(chunks) = pdf_text

\* The earliest record without an error marker whose value for key is not
\* null gives the value; null when there is none.
FirstNonNull(crs, key) ==
    LET I == {i \in DOMAIN crs : /\ ~Has(crs[i], "error")
                                 /\ Has(crs[i], key)
                                 /\ Get(crs[i], key) # Null}
    IN IF I = {} THEN Null
       ELSE Get(crs[CHOOSE i \in I : \A j \in I : i <= j], key)

\* C5: after merge_chunk_results every scalar field holds the value of the
\* earliest non-error chunk whose value for the field is not null (an empty
\* string or 0 included).
C5_ScalarFirstNonNullWins ==
    (pc = "merge_done" /\ ~result.raised)
    => \A n \in DOMAIN ScalarKeys :
           Get(result.value, ScalarKeys[n]) = FirstNonNull(chunk_results, ScalarKeys[n])

\* The indices of the non-error records whose nested object nk reports a
\* non-null value for sub-key sk.
Reporters(crs, nk, sk) ==
    {i \in DOMAIN crs : /\ ~Has(crs[i], "error")
                        /\ Has(crs[i], nk)
                        /\ Get(crs[i], nk).t = "dict"
                        /\ sk \in DOMAIN Get(crs[i], nk).d
                        /\ Get(crs[i], nk).d[sk] # Null}
SubKeys == {"deductible", "copay"}

\* C6: after merge_chunk_results every sub-key of a nested object holds the
\* value of the last non-error chunk that reports a non-null value for it; a
\* later null does not erase it.
C6_NestedLastNonNullWins ==
    (pc = "merge_done" /\ ~result.raised)
    => \A n \in DOMAIN NestedKeys : \A sk \in SubKeys :
           LET nk == NestedKeys[n]
               I == Reporters(chunk_results, nk, sk)
               last == CHOOSE i \in I : \A j \in I : j <= i
           IN I # {} => /\ sk \in DOMAIN Get(result.value, nk).d
                        /\ Get(result.value, nk).d[sk]
                               = Get(chunk_results[last], nk).d[sk]

\* C7: records with an error marker contribute nothing: the merge of a list
\* is the merge of the list without them (a raised TypeError included), and
\* when nothing is left it is the skeleton, returned without raising.
C7_ErrorRecordsContributeNothing ==
    pc = "merge_done"
    => LET kept == SelectSeq(chunk_results, LAMBDA r : ~Has(r, "error"))
       IN /\ \E o \in MergeOrders(kept) : result = merge_chunk_results(kept, o)
          /\ kept = <<>> => result = [raised |-> FALSE, value |-> Skeleton]

\* C7 witness: an error-marked record that carries fields, then a record
\* with plan_name "X", then a plain marker; the merge has plan_name "X".
C7_Witness ==
    /\ pc = "merge_done"
    /\ chunk_results = <<ErrorWithFields, <<Pair("plan_name", Str("X"))>>,
                         ErrorMarker("boom", 1)>>
    /\ ~result.raised
    /\ Get(result.value, "plan_name") = Str("X")

\* The entries of the outcome list: one per processed path, in input order,
\* a failed one with an error message and no output.
C8_Entries ==
    /\ pc \in {"document", "call", "combine"}
           => /\ doc_idx \in 1..Len(pdf_paths)
              /\ Len(results.files) = doc_idx - 1
    /\ pc \in {"summary", "done"} => Len(results.files) = Len(pdf_paths)
    /\ Len(results.files) <= Len(pdf_paths)
    /\ \A j \in DOMAIN results.files :
           /\ results.files[j].input = pdf_paths[j]
           /\ results.files[j].status \in {"success", "failed"}
           /\ results.files[j].status = "failed"
                  => /\ "error" \in DOMAIN results.files[j]
                     /\ results.files[j].error # ""
                     /\ results.files[j].output = Null

\* The steps of the loop: entries already appended stay as they are and at
\* most one is added; when the merge of the current document's chunk results
\* raises, the entry added is a failed one for the current path whose error
\* is the message of that exception, and the loop goes on to the next path
\* (to the summary after the last).
C8_Step ==
    /\ pc # "start" =>
           /\ Len(results'.files) \in {Len(results.files), Len(results.files) + 1}
           /\ SubSeq(results'.files, 1, Len(results.files)) = results.files
    /\ (/\ pc = "combine"
        /\ Len(pdf_text) > max_chars_per_chunk
        /\ \E i \in DOMAIN chunk_results :
               /\ ~Has(chunk_results[i], "error")
               /\ Has(chunk_results[i], "key_requirements")
               /\ \E v \in SeqRange(Get(chunk_results[i], "key_requirements").l) :
                      v.t \in {"list", "dict"})
       => LET reported == Flatten([i \in DOMAIN chunk_results |->
                              IF ~Has(chunk_results[i], "error")
                                 /\ Has(chunk_results[i], "key_requirements")
                              THEN Get(chunk_results[i], "key_requirements").l
                              ELSE <<>>])
              first == reported[CHOOSE j \in DOMAIN reported :
                                    /\ reported[j].t \in {"list", "dict"}
                                    /\ \A k \in 1..(j - 1) :
                                           reported[k].t \notin {"list", "dict"}]
          IN /\ results'.files = Append(results.files,
                     [input |-> pdf_paths[doc_idx], output |-> Null,
                      status |-> "failed",
                      error |-> "unhashable type: '" \o first.t \o "'"])
             /\ results'.failed = results.failed + 1
             /\ out_files' = out_files
             /\ doc_idx' = doc_idx + 1
             /\ pc' = IF doc_idx = Len(pdf_paths) THEN "summary" ELSE "document"

\* C8: batch_process appends exactly one entry per path, in input order,
\* whatever happened to the document; an exception escaping a document's
\* pipeline is recorded as a failed entry that carries the exception's
\* message and no output, the entry is not changed afterwards, and the loop
\* goes on to the next path.
C8_OneEntryPerPathInOrder == [](C8_Entries) /\ [][C8_Step]_vars

\* C8 witness: a finished batch of three paths whose second document raised
\* on a list among its key requirements and whose third was then processed
\* and saved.
C8_Witness ==
    /\ pc = "done"
    /\ Len(pdf_paths) = 3
    /\ results.files[1].status = "success"
    /\ results.files[2].status = "failed"
    /\ results.files[2].error = "unhashable type: 'list'"
    /\ results.files[3].status = "success"

\* C9: the record extract_to_json returns for a document with text is the
\* merge of the document's chunk results plus the _metadata block, for one
\* chunk as for several.
C9_ResultIsMergePlusMetadata ==
    (result # <<>> /\ pdf_text # <<>>)
    => /\ Has(result, "_metadata")
       /\ \E o \in MergeOrders(chunk_results) :
              LET m == merge_chunk_results(chunk_results, o)
              IN ~m.raised /\ DictEq(Remove(result, "_metadata"), m.value)

\* C10: every field of a non-error record that is not a skeleton key and has
\* a value is kept in additional_info: '<key>: <value>' for a string or a
\* number, each element for a list, and an object is not dropped either.
C10_ExtraFieldsKept ==
    (pc = "merge_done" /\ ~result.raised)
    => \A i \in DOMAIN chunk_results : \A n \in DOMAIN chunk_results[i] :
           LET key == chunk_results[i][n].k
               value == chunk_results[i][n].v
               info == Get(result.value, "additional_info").l
           IN (~Has(chunk_results[i], "error") /\ ~Has(Skeleton, key) /\ value # Null)
              => CASE value.t = "list" -> \A e \in DOMAIN value.l : InList(value.l[e], info)
                   [] value.t = "str" -> InList(Str(key \o ": " \o value.s), info)
                   [] value.t = "num" -> InList(Str(key \o ": " \o ToString(value.n)), info)
                   [] OTHER -> info # <<>>

\* The extraction_method tag of the record extract_to_json returned.
MethodTag(rec) == Get(rec, "_metadata").d["extraction_method"].s

\* C11: the record's extraction_method is "groq_llm_chunked" exactly when
\* more than one chunk was produced for the document, and "groq_llm" exactly
\* when one chunk was produced.
C11_TagMatchesChunkCount ==
    (result # <<>> /\ pdf_text # <<>>)
    => /\ MethodTag(result) = "groq_llm_chunked" <=> Len(chunks) > 1
       /\ MethodTag(result) = "groq_llm" <=> Len(chunks) = 1

\* C12: a failed chunk does not stop the document: the chunks are submitted
\* one at a time in increasing index order, each with the total count, the
\* chunks after an error marker included, and the merger receives the
\* results of all chunks in that order.
C12_ChunkFailureIsLocal ==
    /\ pc = "call" => Len(chunk_results) < Len(chunks)
    /\ pc = "combine" => Len(chunk_results) = Len(chunks)
    /\ Len(call_log) = Len(chunk_results)
    /\ \A i \in DOMAIN call_log :
           /\ call_log[i].chunk_num = i
           /\ call_log[i].total_chunks = Len(chunks)
           /\ call_log[i].failed > 0
                  => chunk_results[i] = ErrorMarker("service error", i)
    /\ (result # <<>> /\ Len(pdf_text) > max_chars_per_chunk)
           => /\ Len(chunk_results) = Len(chunks)
              /\ \E o \in MergeOrders(chunk_results) :
                     Remove(result, "_metadata")
                         = merge_chunk_results(chunk_results, o).value

\* C12 witness: a two-chunk document whose first chunk gave an error marker
\* and whose second chunk was still submitted and answered, merged and saved.
C12_Witness ==
    /\ result # <<>>
    /\ Len(chunks) = 2
    /\ Len(chunk_results) = 2
    /\ call_log[1].failed = 1
    /\ Has(chunk_results[1], "error")
    /\ call_log[2].failed = 0
    /\ chunk_results[2] = FullRecord
    /\ Get(result, "plan_type") = Str("PPO")

\* C13: the batch summary is written exactly once, only after the last
\* document; after every completed document successful + failed is the
\* number of per-document entries, and when the summary is written that
\* number is total, the number of input paths.
C13_SummaryAccountsForEveryDocument ==
    /\ summary_writes = (IF pc = "done" THEN 1 ELSE 0)
    /\ pc # "start"
           => /\ results.total = Len(pdf_paths)
              /\ results.successful + results.failed = Len(results.files)
              /\ Len(results.files) = doc_idx - 1
    /\ pc \in {"summary", "done"} => Len(results.files) = results.total
    /\ pc = "done" => /\ SummaryName \in DOMAIN out_files
                      /\ out_files[SummaryName] = 0

\* C13 witness: a finished batch of three documents with both outcomes, the
\* summary written.
C13_Witness ==
    /\ pc = "done"
    /\ summary_writes = 1
    /\ results.total = 3
    /\ results.successful = 2
    /\ results.failed = 1
    /\ Len(results.files) = 3

\* The indices of the non-error records whose key_requirements is a list.
ListReporters(crs) ==
    {i \in DOMAIN crs : /\ ~Has(crs[i], "error")
                        /\ Has(crs[i], "key_requirements")
                        /\ Get(crs[i], "key_requirements").t = "list"}

\* C14: when merge_chunk_results returns, key_requirements has no element
\* twice and its elements are exactly the elements of the key_requirements
\* lists of the non-error records, elements being compared as Python
\* compares them (==).
C14_RequirementsAreDeduplicatedUnion ==
    (pc = "merge_done" /\ ~result.raised)
    => LET reqs == Get(result.value, "key_requirements").l
           given == UNION {SeqRange(Get(chunk_results[i], "key_requirements").l) :
                               i \in ListReporters(chunk_results)}
       IN /\ \A i, j \in DOMAIN reqs : i # j => ~PyEq(reqs[i], reqs[j])
          /\ SeqRange(reqs) \subseteq given
          /\ \A u \in given : \E i \in DOMAIN reqs : PyEq(reqs[i], u)

\* C14 witness: lists ["r1", "r2"] and ["r1"] from two chunks and one from
\* an error-marked record merge into the two elements r1 and r2.
C14_Witness ==
    /\ pc = "merge_done"
    /\ chunk_results = <<<<Pair("key_requirements", List(<<Str("r1"), Str("r2")>>))>>,
                         ErrorWithFields,
                         <<Pair("key_requirements", List(<<Str("r1")>>))>>>>
    /\ ~result.raised
    /\ Len(Get(result.value, "key_requirements").l) = 2
    /\ SeqRange(Get(result.value, "key_requirements").l) = {Str("r1"), Str("r2")}

\* The time slept in the calls of the first n entries of a call log.
RECURSIVE TotalSlept(_, _)
TotalSlept(log, n) ==
    IF n = 0 THEN 0 ELSE TotalSlept(log, n - 1) + log[n].slept

\* C15: every successful chunk call sleeps the pacing delay once before it
\* returns, hence before the next service call, and a failed call does not
\* sleep: a document with k successful chunk calls so far has slept k delays.
C15_OneDelayPerSuccessfulCall ==
    /\ \A i \in DOMAIN call_log :
           call_log[i].slept = (IF call_log[i].failed = 0 THEN PacingDelay ELSE 0)
    /\ TotalSlept(call_log, Len(call_log))
           = PacingDelay * Cardinality({i \in DOMAIN call_log : call_log[i].failed = 0})

\* C15 witness: a two-chunk document, both chunk calls successful, two
\* delays slept before the merge.
C15_Witness ==
    /\ pc = "combine"
    /\ Len(chunks) = 2
    /\ Len(call_log) = 2
    /\ call_log[1].failed = 0
    /\ call_log[2].failed = 0
    /\ TotalSlept(call_log, 2) = 2 * PacingDelay

\* The results of merge_chunk_results on the list crs, one per set order.
MergeOutcomes(crs) ==
    {merge_chunk_results(crs, o) : o \in MergeOrders(crs)}

\* Merging [crs[1]], then that result with crs[2], and so on up to crs[n]:
\* the possible outcomes; an exception of one step is the outcome.
RECURSIVE FoldOutcomes(_, _)
FoldOutcomes(crs, n) ==
    IF n = 1 THEN MergeOutcomes(<<crs[1]>>)
    ELSE UNION {IF r.raised THEN {r} ELSE MergeOutcomes(<<r.value, crs[n]>>) :
                    r \in FoldOutcomes(crs, n - 1)}

\* C16: merging a list at once and merging its first record, then folding in
\* the later records one by one, give the same scalar values (and raise on
\* the same inputs), error-marked records included.
C16_ScalarMergeIsAssociative ==
    (pc = "merge_done" /\ chunk_results # <<>>)
    => \A f \in FoldOutcomes(chunk_results, Len(chunk_results)) :
           /\ f.raised = result.raised
           /\ ~f.raised
                  => \A n \in DOMAIN ScalarKeys :
                         Get(f.value, ScalarKeys[n]) = Get(result.value, ScalarKeys[n])

\* C16 witness: A reports an empty plan_type, B is error-marked, C reports
\* "HMO"; the merge at once and the fold both give "HMO".
C16_Witness ==
    /\ pc = "merge_done"
    /\ chunk_results = <<<<Pair("plan_type", Str(""))>>, ErrorWithFields,
                         <<Pair("plan_type", Str("HMO"))>>>>
    /\ ~result.raised
    /\ Get(result.value, "plan_type") = Str("HMO")
    /\ \A f \in FoldOutcomes(chunk_results, 3) :
           ~f.raised /\ Get(f.value, "plan_type") = Str("HMO")

\* C17: for every text no longer than max_chars, the empty text included,
\* chunk_text returns exactly one chunk, the text itself.
C17_SmallTextIsOneChunk ==
    (pc = "chunk_done" /\ Len(pdf_text) <= max_chars_per_chunk)
    => chunks = <<pdf_text>>

\* C17 witness: a text of exactly max_chars characters that holds a page
\* marker and ends in a newline comes back whole as the only chunk.
C17_Witness ==
    /\ pc = "chunk_done"
    /\ pdf_text = <<"a">> \o PageMarker \o <<"\n">>
    /\ max_chars_per_chunk = Len(pdf_text)
    /\ chunks = <<pdf_text>>

\* C18: when extract_text_from_pdf gives the empty text, extract_to_json
\* returns the record {"error", "file": the path} and neither the chunker,
\* nor the extraction service, nor the merger runs for that document: the
\* service and the merge are reached only with a non-empty text, and after
\* such a document no chunk, chunk result or service call exists.
C18_EmptyTextIsHardFailure ==
    /\ pc \in {"call", "combine"}
           => /\ extract_text_from_pdf(CurrentPath) # <<>>
              /\ pdf_text = extract_text_from_pdf(CurrentPath)
    /\ (/\ pc \in {"document", "summary", "done"}
        /\ doc_idx >= 2
        /\ extract_text_from_pdf(pdf_paths[doc_idx - 1]) = <<>>)
           => /\ result = TextFailure(pdf_paths[doc_idx - 1])
              /\ Has(result, "error")
              /\ ~Has(result, "_metadata")
              /\ chunks = <<>>
              /\ chunk_results = <<>>
              /\ call_log = <<>>

\* C18 witness: the second document of a batch cannot be opened; after it
\* the returned record is the failure record of its path and no service call
\* was made for it, although the first document was sent to the service.
C18_Witness ==
    /\ pc = "document"
    /\ doc_idx = 3
    /\ pdf_paths[1] = Path("d1", "doc1")
    /\ pdf_paths[2] = Path("d1", "doc2")
    /\ result = <<Pair("error", Str("Failed to extract text from PDF")),
                  Pair("file", Str("d1/doc2.pdf"))>>
    /\ call_log = <<>>

\* C19: at the end of batch_process every document recorded as successful
\* still has its own output file, written by no later document and not by
\* the summary, and the number of document output files is the successful
\* count.
C19_EveryDocumentKeepsItsOutput ==
    pc = "done"
    => /\ \A j \in DOMAIN results.files :
              results.files[j].status = "success"
                  => /\ OutputName(results.files[j].input) \in DOMAIN out_files
                     /\ out_files[OutputName(results.files[j].input)] = j
       /\ Cardinality({n \in DOMAIN out_files : out_files[n] # 0})
              = results.successful

====
